---- MODULE Spec2Model ----
(***************************************************************************)
(* Model of ProductTaxonomyClassifier (src/taxonomy.py): the taxonomy      *)
(* table, the level 3 category resolver with its closest-match fallback,   *)
(* the attribute resolver and the two classification entry points.         *)
(*                                                                         *)
(* Text is modelled at two grains.  Category names, attribute names,       *)
(* stored valid-value strings and the model's answer at the category step  *)
(* are sequences of one-character strings, so that lower(), strip(),       *)
(* substring tests, split(';') and the JSON-array sniffing are computed.   *)
(* The model's answer at the attribute step is a sequence of segments      *)
(* (whitespace, a code fence, prose, one JSON value), so that strip(),     *)
(* the fence removal and json.loads are computed on it.                    *)
(***************************************************************************)
EXTENDS Integers, Sequences, FiniteSets, TLC

(***************************************************************************)
(* Bounds of the model.                                                    *)
(***************************************************************************)
MaxRows == 2        \* rows of the taxonomy table
MaxLen == 2         \* characters of a category-step answer

(***************************************************************************)
(* Python str operations on character sequences.                           *)
(***************************************************************************)
Lower(ch) == CASE ch = "A" -> "a" [] ch = "B" -> "b" [] OTHER -> ch

lower(s) == [i \in 1..Len(s) |-> Lower(s[i])]

RECURSIVE lstrip(_)
lstrip(s) == IF s # <<>> /\ Head(s) = " " THEN lstrip(Tail(s)) ELSE s

RECURSIVE rstrip(_)
rstrip(s) == IF s # <<>> /\ s[Len(s)] = " " THEN rstrip(SubSeq(s, 1, Len(s) - 1)) ELSE s

strip(s) == rstrip(lstrip(s))

\* Python's "a in b" on two strings.
IsSubstring(a, b) ==
  \E i \in 0..(Len(b) - Len(a)) : SubSeq(b, i + 1, i + Len(a)) = a

\* Position of the first element of seq satisfying Test, 0 when none does.
FirstIndex(seq, Test(_)) ==
  IF \E i \in 1..Len(seq) : Test(seq[i])
    THEN CHOOSE i \in 1..Len(seq) :
           /\ Test(seq[i])
           /\ \A j \in 1..(i - 1) : ~Test(seq[j])
    ELSE 0

\* pandas unique() / drop_duplicates(): first occurrences, in order.
RECURSIVE Unique(_)
Unique(seq) ==
  IF seq = <<>> THEN <<>>
  ELSE LET init == Unique(SubSeq(seq, 1, Len(seq) - 1))
           last == seq[Len(seq)]
       IN IF \E i \in 1..Len(init) : init[i] = last THEN init ELSE Append(init, last)

Range(seq) == {seq[i] : i \in 1..Len(seq)}

(***************************************************************************)
(* Exceptions.  str(e) is the sequence of message parts, outermost first.  *)
(***************************************************************************)
None == [k |-> "none"]

Raise(type, msg) == [k |-> "exc", type |-> type, msg |-> msg]

IsExc(x) == x.k = "exc"

(***************************************************************************)
(* Python values: what json.loads, split and the resolver produce.         *)
(***************************************************************************)
PyStr(s) == [k |-> "str", s |-> s]

PyInt(n) == [k |-> "int", n |-> n]

PyList(items) == [k |-> "list", items |-> items]

PyDict(d) == [k |-> "dict", d |-> d]

NA == <<"N", "/", "A">>

(***************************************************************************)
(* json.loads on a character sequence that starts with '[' and ends with   *)
(* ']' (taxonomy.py line 168).  The scanner covers flat arrays of quoted   *)
(* strings without escapes and of unsigned integers written with the digit *)
(* 1, which is every array the stored strings of RowPool can spell; any    *)
(* other text is a decode error.                                           *)
(***************************************************************************)
DecodeError == [ok |-> FALSE, v |-> <<>>]

RECURSIVE SkipWs(_, _)
SkipWs(s, i) == IF i <= Len(s) /\ s[i] = " " THEN SkipWs(s, i + 1) ELSE i

RECURSIVE DigitsEnd(_, _)
DigitsEnd(s, i) == IF i <= Len(s) /\ s[i] = "1" THEN DigitsEnd(s, i + 1) ELSE i

RECURSIVE IntOfOnes(_)
IntOfOnes(n) == IF n = 0 THEN 0 ELSE 10 * IntOfOnes(n - 1) + 1

\* s is the text between the brackets; i the position where a value is due.
RECURSIVE ScanItems(_, _, _)
ScanItems(s, i, acc) ==
  LET p == SkipWs(s, i) IN
  IF p > Len(s) THEN DecodeError
  ELSE LET close == IF s[p] = "\""
                      THEN FirstIndex([j \in 1..Len(s) |-> IF j > p THEN s[j] ELSE "."],
                                      LAMBDA c : c = "\"")
                      ELSE 0
           stop == IF s[p] = "\"" THEN close + 1 ELSE DigitsEnd(s, p)
           item == IF s[p] = "\"" THEN PyStr(SubSeq(s, p + 1, close - 1))
                   ELSE PyInt(IntOfOnes(stop - p))
           bad == IF s[p] = "\"" THEN close = 0 ELSE stop = p
           q == SkipWs(s, stop)
       IN IF bad THEN DecodeError
          ELSE IF q > Len(s) THEN [ok |-> TRUE, v |-> Append(acc, item)]
          ELSE IF s[q] = "," THEN ScanItems(s, q + 1, Append(acc, item))
          ELSE DecodeError

json_loads_array(s) ==
  LET inner == SubSeq(s, 2, Len(s) - 1) IN
  IF Len(s) < 2 THEN DecodeError
  ELSE IF SkipWs(inner, 1) > Len(inner) THEN [ok |-> TRUE, v |-> <<>>]
  ELSE ScanItems(inner, 1, <<>>)

\* str.split(sep) for a one-character separator.
RECURSIVE split(_, _)
split(s, sep) ==
  LET i == FirstIndex(s, LAMBDA c : c = sep) IN
  IF i = 0 THEN <<s>>
  ELSE <<SubSeq(s, 1, i - 1)>> \o split(SubSeq(s, i + 1, Len(s)), sep)

\* sep.join(parts) for a sequence of character sequences.
RECURSIVE join(_, _)
join(sep, parts) ==
  IF parts = <<>> THEN <<>>
  ELSE IF Len(parts) = 1 THEN parts[1]
  ELSE parts[1] \o sep \o join(sep, Tail(parts))

(***************************************************************************)
(* The taxonomy table: self.taxonomy_df, a sequence of rows.               *)
(***************************************************************************)
Row(l1, l2, l3, attr, vals) ==
  [level_1_category |-> l1, level_2_category |-> l2, level_3_category |-> l3,
   attribute |-> attr, valid_attribute_values |-> vals]

\* self.taxonomy_df[self.taxonomy_df['level 3 category'] == level_3]
matching_rows(df, level_3) ==
  SelectSeq(df, LAMBDA r : r.level_3_category = level_3)

\* Variant: the distinct values are listed from the last row upwards.
level_3_options_reversed(df) ==
  SelectSeq(Unique([i \in 1..Len(df) |-> df[Len(df) + 1 - i].level_3_category]),
            LAMBDA cat : strip(cat) # <<>>)

\* get_level_3_taxonomy, lines 84-87: the distinct non-blank level 3 values.
level_3_options(df) ==
  SelectSeq(Unique([i \in 1..Len(df) |-> df[i].level_3_category]),
            LAMBDA cat : strip(cat) # <<>>)

\* Position of the last element of seq satisfying Test, 0 when none does.
LastIndex(seq, Test(_)) ==
  IF \E i \in 1..Len(seq) : Test(seq[i])
    THEN CHOOSE i \in 1..Len(seq) :
           /\ Test(seq[i])
           /\ \A j \in (i + 1)..Len(seq) : ~Test(seq[j])
    ELSE 0

\* Variant: no default, the answer is returned when nothing matches.
find_closest_match_no_default(response, valid_options) ==
  LET response_lower == strip(lower(response))
      exact == FirstIndex(valid_options, LAMBDA option : lower(option) = response_lower)
      partial == FirstIndex(valid_options,
                            LAMBDA option : \/ IsSubstring(response_lower, lower(option))
                                            \/ IsSubstring(lower(option), response_lower))
  IN IF exact # 0 THEN valid_options[exact]
     ELSE IF partial # 0 THEN valid_options[partial]
     ELSE response

\* Variant: one loop that takes the first option matching exactly or partially.
find_closest_match_single_pass(response, valid_options) ==
  LET response_lower == strip(lower(response))
      partial == FirstIndex(valid_options,
                            LAMBDA option : \/ lower(option) = response_lower
                                            \/ IsSubstring(response_lower, lower(option))
                                            \/ IsSubstring(lower(option), response_lower))
  IN IF partial # 0 THEN valid_options[partial]
     ELSE IF valid_options # <<>> THEN valid_options[1]
     ELSE response

\* Variant: the partial loop keeps the last match instead of returning the first.
find_closest_match_last_partial(response, valid_options) ==
  LET response_lower == strip(lower(response))
      exact == FirstIndex(valid_options, LAMBDA option : lower(option) = response_lower)
      partial == LastIndex(valid_options,
                           LAMBDA option : \/ IsSubstring(response_lower, lower(option))
                                           \/ IsSubstring(lower(option), response_lower))
  IN IF exact # 0 THEN valid_options[exact]
     ELSE IF partial # 0 THEN valid_options[partial]
     ELSE IF valid_options # <<>> THEN valid_options[1]
     ELSE response

\* Variant: the default is the last option.
find_closest_match_last_default(response, valid_options) ==
  LET response_lower == strip(lower(response))
      exact == FirstIndex(valid_options, LAMBDA option : lower(option) = response_lower)
      partial == FirstIndex(valid_options,
                            LAMBDA option : \/ IsSubstring(response_lower, lower(option))
                                            \/ IsSubstring(lower(option), response_lower))
  IN IF exact # 0 THEN valid_options[exact]
     ELSE IF partial # 0 THEN valid_options[partial]
     ELSE IF valid_options # <<>> THEN valid_options[Len(valid_options)]
     ELSE response

\* _find_closest_match, lines 243-256.
find_closest_match(response, valid_options) ==
  LET response_lower == strip(lower(response))
      exact == FirstIndex(valid_options, LAMBDA option : lower(option) = response_lower)
      partial == FirstIndex(valid_options,
                            LAMBDA option : \/ IsSubstring(response_lower, lower(option))
                                            \/ IsSubstring(lower(option), response_lower))
  IN IF exact # 0 THEN valid_options[exact]
     ELSE IF partial # 0 THEN valid_options[partial]
     ELSE IF valid_options # <<>> THEN valid_options[1]
     ELSE response

\* get_level_3_taxonomy, lines 104-109: what is returned for the model's answer.
select_category(selected_category, options) ==
  IF selected_category \notin Range(options)
    THEN find_closest_match(selected_category, options)
    ELSE selected_category

\* Variant: the last matching row is read instead of the first.
get_parent_categories_last_row(df, level_3_category) ==
  LET rows == matching_rows(df, level_3_category) IN
  IF rows = <<>>
    THEN Raise("ValueError", <<"No matching row found for level 3 category">>)
    ELSE [k |-> "tuple", level_1 |-> rows[Len(rows)].level_1_category,
          level_2 |-> rows[Len(rows)].level_2_category]

\* get_parent_categories, lines 121-134: the pair, or the ValueError raised.
get_parent_categories(df, level_3_category) ==
  LET rows == matching_rows(df, level_3_category) IN
  IF rows = <<>>
    THEN Raise("ValueError", <<"No matching row found for level 3 category">>)
    ELSE [k |-> "tuple", level_1 |-> rows[1].level_1_category,
          level_2 |-> rows[1].level_2_category]

(***************************************************************************)
(* get_attributes, lines 147-179: the attribute schema of a category.      *)
(***************************************************************************)
\* lines 148-150: the distinct (attribute, valid attribute values) pairs.
attributes_df(df, level_3_taxonomy) ==
  LET rows == matching_rows(df, level_3_taxonomy) IN
  Unique([i \in 1..Len(rows) |->
            [attribute |-> rows[i].attribute,
             valid_attribute_values |-> rows[i].valid_attribute_values]])

\* lines 164-176: the list parsed from the stored string.
valid_values_list(valid_values) ==
  IF valid_values # <<>> /\ Head(valid_values) = "[" /\ valid_values[Len(valid_values)] = "]"
    THEN LET parsed == json_loads_array(valid_values) IN
         IF parsed.ok THEN parsed.v ELSE <<PyStr(valid_values)>>
    ELSE LET parts == split(valid_values, ";") IN
         [i \in 1..Len(parts) |-> PyStr(strip(parts[i]))]

\* line 179: ', '.join(valid_values_list) raises TypeError on a non-str item.
JoinFails(list) == \E i \in 1..Len(list) : list[i].k # "str"

\* line 179: f"{attribute}: {', '.join(valid_values_list)}"
attribute_line(attribute, list) ==
  attribute \o <<":", " ">> \o join(<<",", " ">>, [i \in 1..Len(list) |-> list[i].s])

\* lines 156-179: the loop over attributes_df.  attribute_options is a dict:
\* keys in first-insertion order, a later row of the same attribute replaces
\* the options of an earlier one.
build_attribute_options(adf) ==
  LET lists == [i \in 1..Len(adf) |-> valid_values_list(adf[i].valid_attribute_values)]
      names == Unique([i \in 1..Len(adf) |-> adf[i].attribute])
      lastOf(name) == CHOOSE i \in 1..Len(adf) :
                        /\ adf[i].attribute = name
                        /\ \A j \in (i + 1)..Len(adf) : adf[j].attribute # name
  IN IF \E i \in 1..Len(adf) : JoinFails(lists[i])
       THEN Raise("TypeError", <<"sequence item: expected str instance">>)
       ELSE [k |-> "options",
             keys |-> names,
             options |-> [name \in Range(names) |-> lists[lastOf(name)]],
             attribute_list |-> [i \in 1..Len(adf) |-> attribute_line(adf[i].attribute, lists[i])]]

(***************************************************************************)
(* The model's answer at the attribute step, as a sequence of segments.    *)
(* A text holds at most one JSON segment; a fence directly followed by the *)
(* word json is the segment FenceJson.                                     *)
(***************************************************************************)
Ws == [t |-> "ws"]

FenceJson == [t |-> "fence_json"]

Fence == [t |-> "fence"]

Prose == [t |-> "prose"]

Json(v) == [t |-> "json", v |-> v]

Text(segments) == [k |-> "text", segments |-> segments]

RECURSIVE lstrip_text(_)
lstrip_text(text) ==
  IF text # <<>> /\ Head(text) = Ws THEN lstrip_text(Tail(text)) ELSE text

RECURSIVE rstrip_text(_)
rstrip_text(text) ==
  IF text # <<>> /\ text[Len(text)] = Ws
    THEN rstrip_text(SubSeq(text, 1, Len(text) - 1)) ELSE text

strip_text(text) == rstrip_text(lstrip_text(text))

\* lines 212-216: strip, then remove the fence markers when the text starts
\* with one.  Replacing the bare marker alone leaves the word json of a later
\* fence_json marker behind, as prose.
clean_response(response) ==
  LET stripped == strip_text(response) IN
  IF stripped # <<>> /\ Head(stripped) = FenceJson
    THEN strip_text(SelectSeq(stripped, LAMBDA g : g # FenceJson /\ g # Fence))
  ELSE IF stripped # <<>> /\ Head(stripped) = Fence
    THEN strip_text([i \in 1..Len(SelectSeq(stripped, LAMBDA g : g # Fence)) |->
                       LET g == SelectSeq(stripped, LAMBDA h : h # Fence)[i]
                       IN IF g = FenceJson THEN Prose ELSE g])
  ELSE stripped

\* line 218: json.loads accepts one JSON value with whitespace around it.
json_loads(text) ==
  LET body == strip_text(text) IN
  IF Len(body) = 1 /\ body[1].t = "json"
    THEN [ok |-> TRUE, v |-> body[1].v]
    ELSE [ok |-> FALSE, v |-> None]

\* "attribute not in selected_attributes" (line 222) for each Python type;
\* Unsupported when the type has no "in".
Contains(value, attribute) ==
  CASE value.k = "dict" -> attribute \in DOMAIN value.d
    [] value.k = "list" -> \E i \in 1..Len(value.items) : value.items[i] = PyStr(attribute)
    [] value.k = "str" -> IsSubstring(attribute, value.s)
    [] OTHER -> FALSE

SupportsIn(value) == value.k \in {"dict", "list", "str"}

\* Variant: keys that are not expected attributes are dropped.
fill_missing_strip(selected_attributes, keys) ==
  IF selected_attributes.k # "dict"
    THEN Raise("TypeError", <<"argument is not iterable">>)
    ELSE PyDict([a \in Range(keys) |->
                   IF a \in DOMAIN selected_attributes.d
                     THEN selected_attributes.d[a] ELSE PyStr(NA)])

\* Variant: every expected attribute is set to 'N/A', supplied or not.
fill_missing_overwrite(selected_attributes, keys) ==
  IF selected_attributes.k # "dict"
    THEN Raise("TypeError", <<"argument is not iterable">>)
    ELSE PyDict([a \in (DOMAIN selected_attributes.d) \cup Range(keys) |->
                   IF a \in Range(keys) THEN PyStr(NA) ELSE selected_attributes.d[a]])

\* lines 221-225: insert 'N/A' for every expected attribute that is absent.
\* Item assignment with a str key exists on a dict only.
fill_missing(selected_attributes, keys) ==
  IF ~SupportsIn(selected_attributes)
    THEN Raise("TypeError", <<"argument is not iterable">>)
  ELSE IF selected_attributes.k = "dict"
    THEN PyDict([a \in (DOMAIN selected_attributes.d) \cup Range(keys) |->
                   IF a \in DOMAIN selected_attributes.d
                     THEN selected_attributes.d[a] ELSE PyStr(NA)])
  ELSE IF \E i \in 1..Len(keys) : ~Contains(selected_attributes, keys[i])
    THEN Raise("TypeError", <<"object does not support item assignment">>)
  ELSE selected_attributes

\* Variant: the fallback returns an empty mapping.
all_na_empty(keys) == PyDict(<<>>)

\* lines 227-230: the fallback of the JSONDecodeError handler.
all_na(keys) == PyDict([a \in Range(keys) |-> PyStr(NA)])

\* lines 209-230: what get_attributes returns or raises for the answer.
parse_attributes(response, keys) ==
  LET parsed == json_loads(clean_response(response)) IN
  IF parsed.ok THEN fill_missing(parsed.v, keys) ELSE all_na(keys)

(***************************************************************************)
(* Inputs: the rows a taxonomy source may hold, the descriptions, and the  *)
(* texts the Model Gateway may answer with.                                *)
(***************************************************************************)
RowPool ==
  { Row("Garden", "Hoses", <<"a", "b">>, <<"m">>, <<"a", ";", "b">>),
    Row("Garden", "Hoses", <<"a", "b">>, <<"n">>, <<>>),
    Row("Garden", "Hoses", <<"a", "b">>, <<"m">>, <<"b">>),
    Row("Home", "Hoses", <<"a", "b">>, <<"m">>, <<"a", ";", "b">>),
    Row("Garden", "Tools", <<"a">>, <<"m">>, <<"[", "\"", "a", "\"", "]">>),
    Row("Home", "Tools", <<"B">>, <<"n">>, <<"[", "1", "]">>),
    Row("Home", "Lamps", <<>>, <<"m">>, <<"b">>),
    Row("Home", "Lamps", <<" ">>, <<"n">>, <<"[", "a", "]">>) }

RECURSIVE SeqsUpTo(_, _)
SeqsUpTo(S, n) ==
  IF n = 0 THEN {<<>>}
  ELSE LET shorter == SeqsUpTo(S, n - 1)
       IN shorter \cup {Append(q, x) : q \in shorter, x \in S}

Tables == SeqsUpTo(RowPool, MaxRows)

Descriptions == {"50ft rubber hose"}

\* Category names a caller may pass to get_parent_categories / get_attributes.
Level3Args == {r.level_3_category : r \in RowPool} \cup {<<"b">>}

\* Raw texts of the category step.
AnswerChars == {"a", "A", "b", " "}

Level3Answers == SeqsUpTo(AnswerChars, MaxLen)

\* Raw texts of the attribute step.
Payloads ==
  { PyDict(<<>>),
    PyDict([a \in {<<"m">>} |-> PyStr(<<"a">>)]),
    PyDict([a \in {<<"m">>, <<"n">>} |-> IF a = <<"m">> THEN PyStr(<<"z">>) ELSE PyInt(1)]),
    PyDict([a \in {<<"m">>, <<"x">>} |-> PyStr(<<"a">>)]),
    PyList(<<>>),
    PyList(<<PyStr(<<"m">>)>>),
    PyList(<<PyStr(<<"n">>), PyStr(<<"m">>)>>),
    PyStr(<<"m">>),
    PyStr(<<"n", "m">>),
    PyInt(1),
    None }

AttributeAnswers ==
  {<<>>, <<Prose>>, <<Fence>>, <<FenceJson, Ws, Prose, Ws, Fence>>}
  \cup {<<Json(v)>> : v \in Payloads}
  \cup {<<Ws, Json(v), Ws>> : v \in Payloads}
  \cup {<<FenceJson, Ws, Json(v), Ws, Fence>> : v \in Payloads}
  \cup {<<Fence, Ws, Json(v), Ws, Fence, Ws>> : v \in Payloads}
  \cup {<<Fence, Json(v), FenceJson>> : v \in Payloads}
  \cup {<<Prose, Ws, Json(v)>> : v \in Payloads}
  \cup {<<Json(v), Ws, Prose>> : v \in Payloads}

(***************************************************************************)
(* State: the table of the classifier, the invocation in progress of a     *)
(* single caller, and the invocations in progress of concurrent callers    *)
(* (one record of local variables per calling thread).                     *)
(***************************************************************************)
VARIABLES taxonomy_df, call, invocations

\* The frame _load_and_clean_taxonomy is working on (src/taxonomy.py).
VARIABLES loading

\* One bulk upload of src/app.py: its entry of progress_dict, the futures of
\* its rows, and the position of thread_target.
VARIABLES progress_dict, workers, thread_pc

\* st.session_state of src/streamlit_app.py.
VARIABLES session_state

load_vars == <<loading>>

bulk_vars == <<progress_dict, workers, thread_pc>>

wizard_vars == <<session_state>>

vars == <<taxonomy_df, call, invocations, load_vars, bulk_vars, wizard_vars>>

\* The values of the variables of the parts of the program that are not
\* running in a specification.
NotLoading == [pc |-> "idle"]

NoUpload == <<>>

NoSession == <<>>

Idle ==
  [op |-> "idle", pc |-> "idle", product_description |-> "", level_3 |-> None,
   options |-> <<>>, parents |-> None, attribute_options |-> None,
   request |-> None, response_level_3 |-> None, response_attributes |-> None,
   api_calls |-> 0,
   returned |-> None, raised |-> None]

\* except Exception as e: raise Exception(f"Classification failed: {str(e)}")
classification_failed(e) == Raise("Exception", <<"Classification failed">> \o e.msg)

\* _make_api_call, line 72.
api_call_failed == Raise("Exception", <<"API call failed">>)

\* Variant: classify_product lets the exceptions of its body through.
Wraps_categories_only(op) == op = "classify_product_categories_only"

\* The two entry points catch every exception of their body (lines 287, 315).
Wraps(op) == op \in {"classify_product", "classify_product_categories_only"}

Raised(c, e) ==
  [c EXCEPT !.pc = "done", !.raised = IF Wraps(c.op) THEN classification_failed(e) ELSE e]

Returned(c, v) == [c EXCEPT !.pc = "done", !.returned = v]

\* get_level_3_taxonomy, lines 84-102: build the options, send the prompt.
begin_level_3(df, c) ==
  LET opts == level_3_options(df) IN
  [c EXCEPT !.pc = "api_level_3", !.options = opts, !.api_calls = @ + 1,
            !.request = [system |-> "level_3",
                         product_description |-> c.product_description,
                         lines |-> [i \in 1..Len(opts) |-> <<"-", " ">> \o opts[i]]]]

\* Variant: one generation call per attribute instead of one for all.
begin_attributes_per_attribute(df, c, level_3) ==
  LET adf == attributes_df(df, level_3)
      built == build_attribute_options(adf)
  IN IF adf = <<>>
       THEN Raised(c, Raise("ValueError", <<"No attributes found for level 3">>))
     ELSE IF IsExc(built) THEN Raised(c, built)
     ELSE [c EXCEPT !.pc = "api_attributes", !.attribute_options = built,
                    !.api_calls = @ + Len(built.keys),
                    !.request = [system |-> "attributes",
                                 product_description |-> c.product_description,
                                 lines |-> [i \in 1..Len(built.attribute_list) |->
                                              <<"-", " ">> \o built.attribute_list[i]]]]

\* Variant: the emptiness check of lines 152-153 is missing.
begin_attributes_no_check(df, c, level_3) ==
  LET adf == attributes_df(df, level_3)
      built == build_attribute_options(adf)
  IN IF IsExc(built) THEN Raised(c, built)
     ELSE [c EXCEPT !.pc = "api_attributes", !.attribute_options = built,
                    !.api_calls = @ + 1,
                    !.request = [system |-> "attributes",
                                 product_description |-> c.product_description,
                                 lines |-> [i \in 1..Len(built.attribute_list) |->
                                              <<"-", " ">> \o built.attribute_list[i]]]]

\* get_attributes, lines 147-207: build the schema, send the prompt.
begin_attributes(df, c, level_3) ==
  LET adf == attributes_df(df, level_3)
      built == build_attribute_options(adf)
  IN IF adf = <<>>
       THEN Raised(c, Raise("ValueError", <<"No attributes found for level 3">>))
     ELSE IF IsExc(built) THEN Raised(c, built)
     ELSE [c EXCEPT !.pc = "api_attributes", !.attribute_options = built,
                    !.api_calls = @ + 1,
                    !.request = [system |-> "attributes",
                                 product_description |-> c.product_description,
                                 lines |-> [i \in 1..Len(built.attribute_list) |->
                                              <<"-", " ">> \o built.attribute_list[i]]]]

\* classify_product lines 279-285 / classify_product_categories_only 308-313.
result_dict(c, attributes) ==
  [k |-> "result", product_description |-> c.product_description,
   level_1_category |-> c.parents.level_1, level_2_category |-> c.parents.level_2,
   level_3_category |-> c.level_3.s, attributes |-> attributes]

\* Variant: the attribute schema is looked up for the model's raw answer
\* instead of the category resolved from it.
after_level_3_raw_schema(df, c, text) ==
  LET level_3 == select_category(text, c.options)
      parents == get_parent_categories(df, level_3)
      c1 == [c EXCEPT !.response_level_3 = PyStr(text), !.level_3 = PyStr(level_3)]
      c2 == [c1 EXCEPT !.parents = parents]
  IN IF c.op = "get_level_3_taxonomy" THEN Returned(c1, PyStr(level_3))
     ELSE IF IsExc(parents) THEN Raised(c1, parents)
     ELSE IF c.op = "classify_product_categories_only" THEN Returned(c2, result_dict(c2, None))
     ELSE begin_attributes(df, c2, text)

\* The code that runs once the category step has answered with text.
after_level_3(df, c, text) ==
  LET level_3 == select_category(text, c.options)
      parents == get_parent_categories(df, level_3)
      c1 == [c EXCEPT !.response_level_3 = PyStr(text), !.level_3 = PyStr(level_3)]
      c2 == [c1 EXCEPT !.parents = parents]
  IN IF c.op = "get_level_3_taxonomy" THEN Returned(c1, PyStr(level_3))
     ELSE IF IsExc(parents) THEN Raised(c1, parents)
     ELSE IF c.op = "classify_product_categories_only" THEN Returned(c2, result_dict(c2, None))
     ELSE begin_attributes(df, c2, level_3)

\* The code that runs once the attribute step has answered with text.
after_attributes(c, text) ==
  LET out == parse_attributes(text, c.attribute_options.keys)
      c1 == [c EXCEPT !.response_attributes = Text(text)]
  IN IF IsExc(out) THEN Raised(c1, out)
     ELSE IF c.op = "classify_product" THEN Returned(c1, result_dict(c1, out))
     ELSE Returned(c1, out)

(***************************************************************************)
(* Actions.                                                                *)
(***************************************************************************)
\* __init__: the table is loaded once; no invocation is in progress.
Init ==
  /\ taxonomy_df \in Tables
  /\ call = Idle
  /\ invocations = <<>>
  /\ loading = NotLoading
  /\ progress_dict = NoUpload
  /\ workers = <<>>
  /\ thread_pc = "idle"
  /\ session_state = NoSession

Start(op, description) == [Idle EXCEPT !.op = op, !.product_description = description]

\* classify_product(product_description) up to its first generation call.
classify_product ==
  /\ call.pc = "idle"
  /\ \E d \in Descriptions :
       call' = begin_level_3(taxonomy_df, Start("classify_product", d))
  /\ UNCHANGED <<taxonomy_df, invocations, load_vars, bulk_vars, wizard_vars>>

\* classify_product_categories_only(product_description) up to its generation call.
classify_product_categories_only ==
  /\ call.pc = "idle"
  /\ \E d \in Descriptions :
       call' = begin_level_3(taxonomy_df, Start("classify_product_categories_only", d))
  /\ UNCHANGED <<taxonomy_df, invocations, load_vars, bulk_vars, wizard_vars>>

\* get_level_3_taxonomy(product_description) called on its own.
get_level_3_taxonomy ==
  /\ call.pc = "idle"
  /\ \E d \in Descriptions :
       call' = begin_level_3(taxonomy_df, Start("get_level_3_taxonomy", d))
  /\ UNCHANGED <<taxonomy_df, invocations, load_vars, bulk_vars, wizard_vars>>

\* Variant: the selection of lines 148-150 is assigned back to self.taxonomy_df.
get_attributes_in_place ==
  /\ call.pc = "idle"
  /\ \E d \in Descriptions, l3 \in Level3Args :
       /\ call' = begin_attributes(taxonomy_df,
                                   [Start("get_attributes", d) EXCEPT !.level_3 = PyStr(l3)], l3)
       /\ taxonomy_df' = matching_rows(taxonomy_df, l3)
  /\ UNCHANGED <<invocations, load_vars, bulk_vars, wizard_vars>>

\* get_attributes(level_3_taxonomy, product_description) called on its own.
get_attributes ==
  /\ call.pc = "idle"
  /\ \E d \in Descriptions, l3 \in Level3Args :
       call' = begin_attributes(taxonomy_df,
                                [Start("get_attributes", d) EXCEPT !.level_3 = PyStr(l3)], l3)
  /\ UNCHANGED <<taxonomy_df, invocations, load_vars, bulk_vars, wizard_vars>>

\* get_parent_categories(level_3_category) called on its own.
call_get_parent_categories ==
  /\ call.pc = "idle"
  /\ \E l3 \in Level3Args :
       LET c == [Start("get_parent_categories", "") EXCEPT !.level_3 = PyStr(l3)]
           parents == get_parent_categories(taxonomy_df, l3)
       IN call' = IF IsExc(parents) THEN Raised(c, parents)
                  ELSE Returned([c EXCEPT !.parents = parents], parents)
  /\ UNCHANGED <<taxonomy_df, invocations, load_vars, bulk_vars, wizard_vars>>

\* _make_api_call returns response.content[0].text.strip() at the category step.
api_returns_level_3 ==
  /\ call.pc = "api_level_3"
  /\ \E raw \in Level3Answers :
       call' = after_level_3(taxonomy_df, call, strip(raw))
  /\ UNCHANGED <<taxonomy_df, invocations, load_vars, bulk_vars, wizard_vars>>

\* _make_api_call returns response.content[0].text.strip() at the attribute step.
api_returns_attributes ==
  /\ call.pc = "api_attributes"
  /\ \E raw \in AttributeAnswers :
       call' = after_attributes(call, strip_text(raw))
  /\ UNCHANGED <<taxonomy_df, invocations, load_vars, bulk_vars, wizard_vars>>

\* Variant: _make_api_call issues the request a second time before it gives up.
api_fails_retry ==
  /\ call.pc \in {"api_level_3", "api_attributes"}
  /\ call' = IF call.api_calls < (IF call.pc = "api_level_3" THEN 2 ELSE 3)
               THEN [call EXCEPT !.api_calls = @ + 1]
               ELSE Raised(call, api_call_failed)
  /\ UNCHANGED <<taxonomy_df, invocations, load_vars, bulk_vars, wizard_vars>>

\* _make_api_call raises: the client failed (lines 71-72).
api_fails ==
  /\ call.pc \in {"api_level_3", "api_attributes"}
  /\ call' = Raised(call, api_call_failed)
  /\ UNCHANGED <<taxonomy_df, invocations, load_vars, bulk_vars, wizard_vars>>

\* The caller has taken the value or the exception; the next call may start.
finish ==
  /\ call.pc = "done"
  /\ call' = Idle
  /\ UNCHANGED <<taxonomy_df, invocations, load_vars, bulk_vars, wizard_vars>>

Next ==
  \/ classify_product
  \/ classify_product_categories_only
  \/ get_level_3_taxonomy
  \/ get_attributes
  \/ call_get_parent_categories
  \/ api_returns_level_3
  \/ api_returns_attributes
  \/ api_fails
  \/ finish

Spec == Init /\ [][Next]_vars

(***************************************************************************)
(* Several threads call classify_product on one classifier.  Each caller   *)
(* has its own locals (its record in invocations); self.taxonomy_df is the *)
(* one object they share.  The steps of different callers interleave.      *)
(***************************************************************************)
NumCallers == 2

Callers == 1..NumCallers

ConcurrentRowPool ==
  { Row("Garden", "Hoses", <<"a", "b">>, <<"m">>, <<"a", ";", "b">>),
    Row("Garden", "Tools", <<"a">>, <<"n">>, <<>>) }

ConcurrentTables == SeqsUpTo(ConcurrentRowPool, MaxRows)

ConcurrentDescriptions == {"50ft rubber hose", "desk lamp"}

ConcurrentLevel3Answers == {<<"a">>, <<"A", "b", " ">>}

ConcurrentAttributeAnswers ==
  { <<Json(PyDict([a \in {<<"m">>} |-> PyStr(<<"a">>)]))>>, <<Json(None)>> }

ConcurrentInit ==
  /\ taxonomy_df \in ConcurrentTables
  /\ call = Idle
  /\ invocations = [t \in Callers |-> Idle]
  /\ loading = NotLoading
  /\ progress_dict = NoUpload
  /\ workers = <<>>
  /\ thread_pc = "idle"
  /\ session_state = NoSession

\* Caller t enters classify_product and issues the category call.
t_classify_product(t) ==
  /\ invocations[t].pc = "idle"
  /\ \E d \in ConcurrentDescriptions :
       invocations' = [invocations EXCEPT
                         ![t] = begin_level_3(taxonomy_df, Start("classify_product", d))]
  /\ UNCHANGED <<taxonomy_df, call, load_vars, bulk_vars, wizard_vars>>

\* Variant: get_attributes assigns its selection back to self.taxonomy_df.
t_api_returns_level_3_in_place(t) ==
  /\ invocations[t].pc = "api_level_3"
  /\ \E raw \in ConcurrentLevel3Answers :
       LET c == after_level_3(taxonomy_df, invocations[t], strip(raw)) IN
       /\ invocations' = [invocations EXCEPT ![t] = c]
       /\ taxonomy_df' = IF c.pc = "api_attributes"
                           THEN matching_rows(taxonomy_df, c.level_3.s)
                           ELSE taxonomy_df
  /\ UNCHANGED <<call, load_vars, bulk_vars, wizard_vars>>

\* Variant: the fallback returns any option that matches the answer, exactly
\* or as a substring, in no fixed order (as iterating over a set would).
t_api_returns_level_3_any_match(t) ==
  /\ invocations[t].pc = "api_level_3"
  /\ \E raw \in ConcurrentLevel3Answers :
       LET matches == {o \in Range(invocations[t].options) :
                         \/ IsSubstring(strip(lower(raw)), lower(o))
                         \/ IsSubstring(lower(o), strip(lower(raw)))}
       IN \E pick \in (IF matches = {} THEN {strip(raw)} ELSE matches) :
            invocations' = [invocations EXCEPT
                              ![t] = [after_level_3(taxonomy_df, invocations[t], pick)
                                        EXCEPT !.response_level_3 = PyStr(strip(raw))]]
  /\ UNCHANGED <<taxonomy_df, call, load_vars, bulk_vars, wizard_vars>>

\* The category call of caller t returns; t runs on to its attribute call.
t_api_returns_level_3(t) ==
  /\ invocations[t].pc = "api_level_3"
  /\ \E raw \in ConcurrentLevel3Answers :
       invocations' = [invocations EXCEPT
                         ![t] = after_level_3(taxonomy_df, invocations[t], strip(raw))]
  /\ UNCHANGED <<taxonomy_df, call, load_vars, bulk_vars, wizard_vars>>

\* The attribute call of caller t returns; t runs to its return statement.
t_api_returns_attributes(t) ==
  /\ invocations[t].pc = "api_attributes"
  /\ \E raw \in ConcurrentAttributeAnswers :
       invocations' = [invocations EXCEPT
                         ![t] = after_attributes(invocations[t], strip_text(raw))]
  /\ UNCHANGED <<taxonomy_df, call, load_vars, bulk_vars, wizard_vars>>

\* The generation call caller t is waiting for raises.
t_api_fails(t) ==
  /\ invocations[t].pc \in {"api_level_3", "api_attributes"}
  /\ invocations' = [invocations EXCEPT ![t] = Raised(invocations[t], api_call_failed)]
  /\ UNCHANGED <<taxonomy_df, call, load_vars, bulk_vars, wizard_vars>>

ConcurrentNext ==
  \E t \in Callers :
    \/ t_classify_product(t)
    \/ t_api_returns_level_3(t)
    \/ t_api_returns_attributes(t)
    \/ t_api_fails(t)

SpecConcurrent == ConcurrentInit /\ [][ConcurrentNext]_vars

\* classify_product run from start to end by a single caller on table df,
\* the gateway giving g1 at the category step and g2 at the attribute step
\* (None: the call raises).
RunAlone(df, d, g1, g2) ==
  LET c0 == begin_level_3(df, Start("classify_product", d))
      c1 == IF g1 = None THEN Raised(c0, api_call_failed)
            ELSE after_level_3(df, c0, g1.s)
  IN IF c1.pc # "api_attributes" THEN c1
     ELSE IF g2 = None THEN Raised(c1, api_call_failed)
     ELSE after_attributes(c1, g2.segments)

(***************************************************************************)
(* __init__ and _load_and_clean_taxonomy (lines 25-44).  A frame is a      *)
(* record of its column labels and its rows; a cell is NaN (an absent      *)
(* value), a str or an int.                                                *)
(***************************************************************************)
NaN == [k |-> "nan"]

string_columns ==
  <<"level 1 category", "level 2 category", "level 3 category", "attribute",
    "valid attribute values">>

Frame(columns, rows) ==
  [columns |-> columns, rows |-> [i \in 1..Len(rows) |-> [c \in columns |-> rows[i][c]]]]

\* str(n) for a natural number.
RECURSIVE Decimal(_)
Decimal(n) ==
  LET digit == <<"0", "1", "2", "3", "4", "5", "6", "7", "8", "9">>[(n % 10) + 1]
  IN IF n < 10 THEN <<digit>> ELSE Append(Decimal(n \div 10), digit)

\* df.fillna(''): a new frame in which every absent value is ''.
fillna(df, value) ==
  [df EXCEPT !.rows = [i \in 1..Len(df.rows) |->
                        [c \in df.columns |->
                           IF df.rows[i][c] = NaN THEN value ELSE df.rows[i][c]]]]

\* str(x) of one cell, as Series.astype(str) applies it.
astype_str(cell) ==
  CASE cell.k = "str" -> cell
    [] cell.k = "int" -> PyStr(Decimal(cell.n))
    [] cell.k = "nan" -> PyStr(<<"n", "a", "n">>)

\* Variant: replace() leaves the column as it is.
replace_kept(cell, to_replace, value) == cell

\* Series.replace(to_replace, value) on one cell: whole-cell equality.
replace(cell, to_replace, value) == IF cell = PyStr(to_replace) THEN PyStr(value) ELSE cell

\* df[col] = f(df[col])
set_column(df, col, f(_)) ==
  [df EXCEPT !.rows = [i \in 1..Len(df.rows) |-> [df.rows[i] EXCEPT ![col] = f(@)]]]

\* Rows a taxonomy CSV may hold, as pd.read_csv delivers them, with a column
\* "notes" that the classifier does not use.
RawRowPool ==
  { [c \in Range(string_columns) \cup {"notes"} |->
       CASE c = "level 1 category" -> PyStr(<<"G">>)
         [] c = "level 2 category" -> PyStr(<<"H">>)
         [] c = "level 3 category" -> PyStr(<<"a", "b">>)
         [] c = "attribute" -> PyStr(<<"m">>)
         [] c = "valid attribute values" -> PyStr(<<"a", ";", "b">>)
         [] OTHER -> PyStr(<<"n", "a", "n">>)],
    [c \in Range(string_columns) \cup {"notes"} |->
       CASE c = "level 2 category" -> NaN
         [] c = "level 3 category" -> PyStr(<<"n", "a", "n">>)
         [] c = "valid attribute values" -> NaN
         [] c = "notes" -> NaN
         [] OTHER -> PyStr(<<"G">>)],
    [c \in Range(string_columns) \cup {"notes"} |->
       CASE c = "level 1 category" -> PyInt(1)
         [] c = "level 3 category" -> NaN
         [] c = "attribute" -> NaN
         [] c = "valid attribute values" -> PyInt(20)
         [] OTHER -> PyStr(<<"H">>)],
    [c \in Range(string_columns) \cup {"notes"} |->
       CASE c = "attribute" -> PyStr(<<"n", "a", "n">>)
         [] c = "valid attribute values" -> PyStr(<<"N", "a", "N">>)
         [] c = "notes" -> PyInt(1)
         [] OTHER -> PyStr(<<"a">>)] }

\* The column sets of the CSV: complete, with an extra column, and with a
\* required column missing.
ColumnSets ==
  { Range(string_columns),
    Range(string_columns) \cup {"notes"},
    Range(string_columns) \ {"level 3 category"},
    (Range(string_columns) \cup {"notes"}) \ {"valid attribute values"} }

Frames == {Frame(columns, rows) : columns \in ColumnSets, rows \in SeqsUpTo(RawRowPool, MaxRows)}

\* __init__ has read the CSV and enters _load_and_clean_taxonomy; the object
\* has no taxonomy_df yet.
LoadInit ==
  /\ loading \in {[pc |-> "fillna", csv_df |-> f, df |-> f, col |-> 1, raised |-> None] :
                    f \in Frames}
  /\ taxonomy_df = None
  /\ call = Idle
  /\ invocations = <<>>
  /\ progress_dict = NoUpload
  /\ workers = <<>>
  /\ thread_pc = "idle"
  /\ session_state = NoSession

\* line 33
load_fillna ==
  /\ loading.pc = "fillna"
  /\ loading' = [loading EXCEPT !.pc = "astype", !.df = fillna(loading.df, PyStr(<<>>))]
  /\ UNCHANGED <<taxonomy_df, call, invocations, bulk_vars, wizard_vars>>

\* lines 37-38, one pass of the loop; df[col] raises KeyError for a label
\* the frame does not have.
load_astype ==
  /\ loading.pc = "astype"
  /\ LET col == string_columns[loading.col] IN
     loading' =
       IF col \notin loading.df.columns
         THEN [loading EXCEPT !.pc = "done", !.raised = Raise("KeyError", <<col>>)]
         ELSE [loading EXCEPT
                 !.df = set_column(loading.df, col, astype_str),
                 !.col = IF loading.col = Len(string_columns) THEN 1 ELSE @ + 1,
                 !.pc = IF loading.col = Len(string_columns) THEN "replace" ELSE @]
  /\ UNCHANGED <<taxonomy_df, call, invocations, bulk_vars, wizard_vars>>

\* lines 41-42, one pass of the loop.
load_replace ==
  /\ loading.pc = "replace"
  /\ LET col == string_columns[loading.col] IN
     loading' =
       IF col \notin loading.df.columns
         THEN [loading EXCEPT !.pc = "done", !.raised = Raise("KeyError", <<col>>)]
         ELSE [loading EXCEPT
                 !.df = set_column(loading.df, col,
                                   LAMBDA cell : replace(cell, <<"n", "a", "n">>, <<>>)),
                 !.col = IF loading.col = Len(string_columns) THEN 1 ELSE @ + 1,
                 !.pc = IF loading.col = Len(string_columns) THEN "return" ELSE @]
  /\ UNCHANGED <<taxonomy_df, call, invocations, bulk_vars, wizard_vars>>

\* line 44 and the assignment of line 25.
load_return ==
  /\ loading.pc = "return"
  /\ loading' = [loading EXCEPT !.pc = "done"]
  /\ taxonomy_df' = loading.df
  /\ UNCHANGED <<call, invocations, bulk_vars, wizard_vars>>

LoadNext ==
  \/ load_fillna
  \/ load_astype
  \/ load_replace
  \/ load_return

SpecLoad == LoadInit /\ [][LoadNext]_vars

(***************************************************************************)
(* One bulk upload of src/app.py: start_bulk_processing, its worker and    *)
(* its thread_target (lines 299-362).  Row i of the uploaded CSV is the    *)
(* row of idx i - 1 of the code; a row is known by its upc.                *)
(***************************************************************************)
MaxUploadRows == 6

\* thread_target, line 331.
max_workers == 5

\* process_single_row (lines 461-467): the tuple returned for a row, known
\* by its first field.
process_single_row(arg) == [upc_cd |-> arg]

Ended(w) == w.pc \in {"done", "raised"}

\* The rows a pool thread is running worker() for.
Busy == {i \in DOMAIN workers : workers[i].pc \in {"running", "increment"}}

BulkInit ==
  /\ progress_dict = NoUpload
  /\ workers = <<>>
  /\ thread_pc = "idle"
  /\ taxonomy_df = <<>>
  /\ call = Idle
  /\ invocations = <<>>
  /\ loading = NotLoading
  /\ session_state = NoSession

\* start_bulk_processing, lines 313-362: the entry of progress_dict is made
\* and thread_target is started.
start_bulk_processing(total) ==
  /\ progress_dict = NoUpload
  /\ progress_dict' = [current |-> 0, total |-> total,
                       results |-> [i \in 1..total |-> None],
                       finished |-> FALSE, csv |-> None]
  /\ workers' = [i \in 1..total |-> [pc |-> "new", arg |-> i, tmp |-> 0]]
  /\ thread_pc' = "submit"
  /\ UNCHANGED <<taxonomy_df, call, invocations, load_vars, wizard_vars>>

\* line 334, one executor.submit(worker, idx, arg): the work item is queued.
thread_submits ==
  /\ thread_pc = "submit"
  /\ \E i \in DOMAIN workers :
       /\ workers[i].pc = "new"
       /\ \A j \in 1..(i - 1) : workers[j].pc # "new"
       /\ workers' = [workers EXCEPT ![i].pc = "queued"]
  /\ UNCHANGED <<progress_dict, thread_pc, taxonomy_df, call, invocations, load_vars,
                 wizard_vars>>

\* Variant: one thread per submitted row, no limit.
worker_starts_unbounded(i) ==
  /\ workers[i].pc = "queued"
  /\ \A j \in 1..(i - 1) : workers[j].pc # "queued"
  /\ workers' = [workers EXCEPT ![i].pc = "running"]
  /\ UNCHANGED <<progress_dict, thread_pc, taxonomy_df, call, invocations, load_vars,
                 wizard_vars>>

\* A thread of the pool takes the oldest queued work item and enters
\* worker(), line 323.  The pool has at most max_workers threads and a
\* thread runs one work item at a time.
worker_starts(i) ==
  /\ workers[i].pc = "queued"
  /\ \A j \in 1..(i - 1) : workers[j].pc # "queued"
  /\ Cardinality(Busy) < max_workers
  /\ workers' = [workers EXCEPT ![i].pc = "running"]
  /\ UNCHANGED <<progress_dict, thread_pc, taxonomy_df, call, invocations, load_vars,
                 wizard_vars>>

\* Variant: the result is put at the position given by the counter, that is
\* in order of completion.
worker_stores_result_by_completion(i) ==
  /\ workers[i].pc = "running"
  /\ progress_dict' = [progress_dict EXCEPT
                         !.results[progress_dict.current + 1] =
                            process_single_row(workers[i].arg)]
  /\ workers' = [workers EXCEPT ![i].pc = "increment", ![i].tmp = progress_dict.current]
  /\ UNCHANGED <<thread_pc, taxonomy_df, call, invocations, load_vars, wizard_vars>>

\* lines 323-325: process_single_row returns, the result is stored in the
\* slot of the row, and the counter is read for "+= 1".  The slot is touched
\* by no other thread, so storing it is one step with the read.
worker_stores_result(i) ==
  /\ workers[i].pc = "running"
  /\ progress_dict' = [progress_dict EXCEPT
                         !.results[i] = process_single_row(workers[i].arg)]
  /\ workers' = [workers EXCEPT ![i].pc = "increment", ![i].tmp = progress_dict.current]
  /\ UNCHANGED <<thread_pc, taxonomy_df, call, invocations, load_vars, wizard_vars>>

\* line 323: process_single_row raises; the future holds the exception.
worker_raises(i) ==
  /\ workers[i].pc = "running"
  /\ workers' = [workers EXCEPT ![i].pc = "raised"]
  /\ UNCHANGED <<progress_dict, thread_pc, taxonomy_df, call, invocations, load_vars,
                 wizard_vars>>

\* line 325, second half of "+= 1", and line 326: the sum is written back.
worker_writes_current(i) ==
  /\ workers[i].pc = "increment"
  /\ progress_dict' = [progress_dict EXCEPT !.current = workers[i].tmp + 1]
  /\ workers' = [workers EXCEPT ![i].pc = "done", ![i].tmp = 0]
  /\ UNCHANGED <<thread_pc, taxonomy_df, call, invocations, load_vars, wizard_vars>>

\* lines 337-343: as_completed has delivered every future and the with
\* block has shut the executor down, which waits for every work item.
thread_joins ==
  /\ thread_pc = "submit"
  /\ \A i \in DOMAIN workers : Ended(workers[i])
  /\ thread_pc' = "build"
  /\ UNCHANGED <<progress_dict, workers, taxonomy_df, call, invocations, load_vars,
                 wizard_vars>>

\* lines 345-352.  pd.DataFrame(results, columns=[nine names]) raises when
\* an item of results is None: a None after a tuple has no len(), and a
\* leading None makes the data one column wide.
thread_builds_csv ==
  /\ thread_pc = "build"
  /\ IF \E i \in DOMAIN progress_dict.results : progress_dict.results[i] = None
       THEN /\ thread_pc' = "except"
            /\ UNCHANGED progress_dict
       ELSE /\ thread_pc' = "finish"
            /\ progress_dict' = [progress_dict EXCEPT !.csv = PyList(progress_dict.results)]
  /\ UNCHANGED <<workers, taxonomy_df, call, invocations, load_vars, wizard_vars>>

\* line 353.
thread_sets_finished ==
  /\ thread_pc = "finish"
  /\ progress_dict' = [progress_dict EXCEPT !.finished = TRUE]
  /\ thread_pc' = "ended"
  /\ UNCHANGED <<workers, taxonomy_df, call, invocations, load_vars, wizard_vars>>

\* Variant: the handler logs the error and leaves the flag alone.
thread_except_log_only ==
  /\ thread_pc = "except"
  /\ thread_pc' = "ended"
  /\ UNCHANGED <<progress_dict, workers, taxonomy_df, call, invocations, load_vars,
                 wizard_vars>>

\* lines 357-359.
thread_except ==
  /\ thread_pc = "except"
  /\ progress_dict' = [progress_dict EXCEPT !.finished = TRUE]
  /\ thread_pc' = "ended"
  /\ UNCHANGED <<workers, taxonomy_df, call, invocations, load_vars, wizard_vars>>

\* update_progress_bar, lines 373-380: what the poll returns for the state.
update_progress_bar ==
  LET total == progress_dict.total
      current == progress_dict.current
      percent == IF total # 0 THEN (current * 100) \div total ELSE 0
  IN [value |-> percent, color |-> IF progress_dict.finished THEN "success" ELSE "info"]

BulkNext ==
  \/ \E total \in 0..MaxUploadRows : start_bulk_processing(total)
  \/ thread_submits
  \/ \E i \in DOMAIN workers : worker_starts(i)
  \/ \E i \in DOMAIN workers : worker_stores_result(i)
  \/ \E i \in DOMAIN workers : worker_raises(i)
  \/ \E i \in DOMAIN workers : worker_writes_current(i)
  \/ thread_joins
  \/ thread_builds_csv
  \/ thread_sets_finished
  \/ thread_except

SpecBulk == BulkInit /\ [][BulkNext]_vars

\* The steps of the threads of an upload: everything but the user's start.
ThreadStep ==
  \/ thread_submits
  \/ \E i \in DOMAIN workers : worker_starts(i)
  \/ \E i \in DOMAIN workers : worker_stores_result(i)
  \/ \E i \in DOMAIN workers : worker_raises(i)
  \/ \E i \in DOMAIN workers : worker_writes_current(i)
  \/ thread_joins
  \/ thread_builds_csv
  \/ thread_sets_finished
  \/ thread_except

\* Scheduling: while some thread of the upload can take a step, one of them
\* does (the process keeps running), and a call of process_single_row ends,
\* by returning or by raising.  Nothing obliges a user to start an upload.
BulkFairness == WF_vars(ThreadStep)

SpecBulkLive == BulkInit /\ [][BulkNext]_vars /\ BulkFairness

(***************************************************************************)
(* The wizard of src/streamlit_app.py.  A step is one user interaction     *)
(* with the page that is shown, or the processing a page does when it is   *)
(* rendered without its data.  st.session_state.product_data is a dict: a  *)
(* function whose domain is the set of keys it holds.                      *)
(***************************************************************************)
Pop(d, key) == [x \in (DOMAIN d) \ {key} |-> d[x]]

Put(d, key, value) == [x \in (DOMAIN d) \cup {key} |-> IF x = key THEN value ELSE d[x]]

\* The products initial_product_lookup may find.
Products == {"hose", "lamp"}

\* The category paths of the taxonomy the wizard offers in its select boxes.
WizardTaxonomy ==
  { [level_1_category |-> "Garden", level_2_category |-> "Hoses",
     level_3_category |-> "Garden Hose"],
    [level_1_category |-> "Home", level_2_category |-> "Lamps",
     level_3_category |-> "Desk Lamp"] }

\* process_attributes (lines 103-104): the mapping get_attributes resolves
\* for a product and a level 3 category, known by what it was resolved for.
process_attributes(product_data, taxonomy_data) ==
  [product |-> product_data, level_3 |-> taxonomy_data]

\* lines 77-82
WizardInit ==
  /\ session_state = [page |-> "input", current_step |-> 1, product_data |-> <<>>,
                      processing_taxonomy |-> FALSE, processing_attributes |-> FALSE]
  /\ taxonomy_df = <<>>
  /\ call = Idle
  /\ invocations = <<>>
  /\ loading = NotLoading
  /\ progress_dict = NoUpload
  /\ workers = <<>>
  /\ thread_pc = "idle"

Has(key) == key \in DOMAIN session_state.product_data

\* The page shown is still to do the processing of its first rendering.
Processing ==
  \/ session_state.page = "taxonomy" /\ ~Has("taxonomy") /\ ~session_state.processing_taxonomy
  \/ session_state.page = "attributes" /\ ~Has("attributes")
       /\ ~session_state.processing_attributes
  \/ session_state.page = "content" /\ ~Has("final")

\* The form of the page shown has been rendered, so its buttons can be used.
FormShown(page) ==
  /\ session_state.page = page
  /\ page = "taxonomy" => Has("taxonomy")
  /\ page = "attributes" => Has("attributes") /\ Has("taxonomy")
  /\ page = "content" => Has("final") /\ Has("initial") /\ Has("taxonomy")

\* input_page, lines 147-168: a lookup that finds a product.
input_page ==
  /\ FormShown("input")
  /\ \E result \in Products :
       session_state' = [session_state EXCEPT
                           !.product_data = Put(@, "initial", result),
                           !.page = "taxonomy", !.current_step = 2]
  /\ UNCHANGED <<taxonomy_df, call, invocations, load_vars, bulk_vars>>

\* taxonomy_page, lines 179-188: classify_product returns a result, or
\* raises and leaves the flag processing_taxonomy behind.
taxonomy_page_processing ==
  /\ session_state.page = "taxonomy"
  /\ ~Has("taxonomy")
  /\ ~session_state.processing_taxonomy
  /\ \/ \E path \in WizardTaxonomy :
          session_state' =
            [session_state EXCEPT
               !.product_data =
                  Put(@, "taxonomy",
                      [level_1_category |-> path.level_1_category,
                       level_2_category |-> path.level_2_category,
                       level_3_category |-> path.level_3_category,
                       product_description |-> session_state.product_data["initial"],
                       attributes |->
                         process_attributes(session_state.product_data["initial"],
                                            path.level_3_category)])]
     \/ session_state' = [session_state EXCEPT !.processing_taxonomy = TRUE]
  /\ UNCHANGED <<taxonomy_df, call, invocations, load_vars, bulk_vars>>

\* taxonomy_page, lines 266-271: "Back to Home".
taxonomy_page_back ==
  /\ FormShown("taxonomy")
  /\ session_state' = [session_state EXCEPT
                         !.product_data = Pop(@, "taxonomy"),
                         !.page = "input", !.current_step = 1]
  /\ UNCHANGED <<taxonomy_df, call, invocations, load_vars, bulk_vars>>

\* taxonomy_page, lines 274-288: "Next: Attributes" with all three levels
\* selected.
taxonomy_page_next ==
  /\ FormShown("taxonomy")
  /\ \E modified_taxonomy \in WizardTaxonomy :
       session_state' = [session_state EXCEPT
                           !.product_data = Pop(Put(@, "taxonomy", modified_taxonomy),
                                                "attributes"),
                           !.page = "attributes", !.current_step = 3]
  /\ UNCHANGED <<taxonomy_df, call, invocations, load_vars, bulk_vars>>

\* attributes_page, lines 297-307: get_attributes returns a mapping, or
\* it (or the read of a key product_data lacks) raises and leaves the flag
\* processing_attributes behind.
attributes_page_processing ==
  /\ session_state.page = "attributes"
  /\ ~Has("attributes")
  /\ ~session_state.processing_attributes
  /\ \/ /\ Has("initial") /\ Has("taxonomy")
        /\ session_state' =
          [session_state EXCEPT
             !.product_data =
                Put(@, "attributes",
                    process_attributes(session_state.product_data["initial"],
                                       session_state.product_data["taxonomy"].level_3_category))]
     \/ session_state' = [session_state EXCEPT !.processing_attributes = TRUE]
  /\ UNCHANGED <<taxonomy_df, call, invocations, load_vars, bulk_vars>>

\* attributes_page, lines 413-418: "Back to Taxonomy".
attributes_page_back ==
  /\ FormShown("attributes")
  /\ session_state' = [session_state EXCEPT
                         !.product_data = Pop(@, "attributes"),
                         !.page = "taxonomy", !.current_step = 2]
  /\ UNCHANGED <<taxonomy_df, call, invocations, load_vars, bulk_vars>>

\* attributes_page, lines 421-428: "Next: Content"; the values of the form,
\* one per key of the stored attributes, are stored.
attributes_page_next ==
  /\ FormShown("attributes")
  /\ session_state' = [session_state EXCEPT
                         !.product_data = Put(@, "attributes", @["attributes"]),
                         !.page = "content", !.current_step = 4]
  /\ UNCHANGED <<taxonomy_df, call, invocations, load_vars, bulk_vars>>

\* description_and_features_page, lines 436-438: the content is generated
\* from the stored product and attributes.
content_page_processing ==
  /\ session_state.page = "content"
  /\ ~Has("final")
  /\ Has("initial") /\ Has("attributes")
  /\ session_state' =
       [session_state EXCEPT
          !.product_data = Put(@, "final", [product |-> @["initial"],
                                            attributes |-> @["attributes"]])]
  /\ UNCHANGED <<taxonomy_df, call, invocations, load_vars, bulk_vars>>

\* description_and_features_page, lines 535-538: back to the attributes.
content_page_back ==
  /\ FormShown("content")
  /\ session_state' = [session_state EXCEPT !.page = "attributes", !.current_step = 3]
  /\ UNCHANGED <<taxonomy_df, call, invocations, load_vars, bulk_vars>>

\* description_and_features_page, lines 544-558: on to the final page.
content_page_next ==
  /\ FormShown("content")
  /\ session_state' = [session_state EXCEPT
                         !.product_data = Put(@, "content", "completed"),
                         !.page = "final"]
  /\ UNCHANGED <<taxonomy_df, call, invocations, load_vars, bulk_vars>>

\* final_page, lines 622-630: "Process New Product".
final_page_new_product ==
  /\ FormShown("final")
  /\ DOMAIN session_state.product_data # {}
  /\ session_state' = [session_state EXCEPT
                         !.page = "input", !.current_step = 1, !.product_data = <<>>]
  /\ UNCHANGED <<taxonomy_df, call, invocations, load_vars, bulk_vars>>

\* main, lines 682-701: the quick navigation of the sidebar, offered on
\* every page but the input page once product_data holds something; a
\* button is there when product_data holds the key named.
quick_navigation(key, page, step) ==
  /\ session_state.page # "input"
  /\ ~Processing
  /\ DOMAIN session_state.product_data # {}
  /\ Has(key)
  /\ session_state' = [session_state EXCEPT !.page = page, !.current_step = step]
  /\ UNCHANGED <<taxonomy_df, call, invocations, load_vars, bulk_vars>>

WizardNext ==
  \/ input_page
  \/ taxonomy_page_processing
  \/ taxonomy_page_back
  \/ taxonomy_page_next
  \/ attributes_page_processing
  \/ attributes_page_back
  \/ attributes_page_next
  \/ content_page_processing
  \/ content_page_back
  \/ content_page_next
  \/ final_page_new_product
  \/ quick_navigation("initial", "taxonomy", 2)
  \/ quick_navigation("taxonomy", "attributes", 3)
  \/ quick_navigation("attributes", "content", 4)
  \/ quick_navigation("content", "final", session_state.current_step)

SpecWizard == WizardInit /\ [][WizardNext]_vars

(***************************************************************************)
(* Vocabulary of the properties.                                           *)
(***************************************************************************)
\* The error kinds of the specification, read off the exception raised.
ErrorKind(e) ==
  CASE e.type = "ValueError" -> "NotFoundError"
    [] e.type = "KeyError" -> "LoadError"
    [] e.type = "Exception" /\ Head(e.msg) = "API call failed" -> "GatewayError"
    [] e.type = "Exception" /\ Head(e.msg) = "Classification failed" -> "ClassificationError"
    [] OTHER -> "Unhandled"

NamedErrorKinds == {"LoadError", "NotFoundError", "GatewayError", "ClassificationError"}

Done(op) == call.op = op /\ call.pc = "done"

HasReturned == call.returned # None

HasRaised == call.raised # None

TableLevel3 == {taxonomy_df[i].level_3_category : i \in 1..Len(taxonomy_df)}

\* attributeNames(AttributeSpec(level3)), read off the table rows.
AttributeNames(level_3) ==
  {taxonomy_df[i].attribute :
     i \in {j \in 1..Len(taxonomy_df) : taxonomy_df[j].level_3_category = level_3}}

\* The category step has answered with text in the invocation shown.
Level3Answered == call.response_level_3 # None

\* The attribute step has answered with text in the invocation shown.
AttributesAnswered == call.response_attributes # None

\* The category step's answer was not one of the options: the closest-match
\* fallback chose the category.
FallbackUsed == Level3Answered /\ call.response_level_3.s \notin Range(call.options)

EqualsIgnoringCase(option, response) == lower(option) = lower(response)

SubstringEitherWay(option, response) ==
  \/ IsSubstring(lower(response), lower(option))
  \/ IsSubstring(lower(option), lower(response))

(***************************************************************************)
(* C1 (as stated): every classify call issues exactly 2 generation calls   *)
(* and every classifyCategoriesOnly call exactly 1.                        *)
(***************************************************************************)
C1_EveryCallBudget ==
  /\ Done("classify_product") => call.api_calls = 2
  /\ Done("classify_product_categories_only") => call.api_calls = 1

(***************************************************************************)
(* C1 (amended): a classify call that returns a result has issued exactly  *)
(* 2 generation calls and one that raises has issued 1 or 2; a             *)
(* classifyCategoriesOnly call issues exactly 1, whatever its outcome.     *)
(***************************************************************************)
C1_CallBudget ==
  /\ (Done("classify_product") /\ HasReturned) => call.api_calls = 2
  /\ (Done("classify_product") /\ HasRaised) => call.api_calls \in {1, 2}
  /\ call.op = "classify_product" => call.api_calls \in {1, 2}
  /\ call.op = "classify_product_categories_only" => call.api_calls = 1

C1_Witness ==
  /\ Done("classify_product")
  /\ HasReturned
  /\ Len(taxonomy_df) >= 2
  /\ Cardinality(AttributeNames(call.level_3.s)) >= 2

(***************************************************************************)
(* C2: the key set of the attributes of a ClassificationResult equals the  *)
(* set of attribute names of the AttributeSpec of its level3.              *)
(***************************************************************************)
C2_KeysEqualSpec ==
  (Done("classify_product") /\ HasReturned) =>
    /\ call.returned.attributes.k = "dict"
    /\ DOMAIN call.returned.attributes.d = AttributeNames(call.returned.level_3_category)

(***************************************************************************)
(* C3: on a non-empty table classify ends either with a result whose       *)
(* level3 is a level3 value of the table or with one of the four named     *)
(* error kinds.                                                            *)
(***************************************************************************)
C3_Totality ==
  (Done("classify_product") /\ taxonomy_df # <<>>) =>
    \/ /\ HasReturned /\ ~HasRaised
       /\ call.returned.k = "result"
       /\ call.returned.level_3_category \in TableLevel3
    \/ /\ HasRaised /\ ~HasReturned
       /\ ErrorKind(call.raised) \in NamedErrorKinds

C3_Witness ==
  /\ Done("classify_product")
  /\ HasReturned
  /\ FallbackUsed
  /\ call.returned.level_3_category \in TableLevel3

\* What get_attributes handed back: the attributes of the result of classify,
\* or the value returned by get_attributes called on its own.
ResolvedAttributes ==
  IF call.op = "classify_product" THEN call.returned.attributes ELSE call.returned

\* The JSON value the attribute-step answer is parsed to, if it is parsed.
ParsedAnswer == json_loads(clean_response(call.response_attributes.segments))

(***************************************************************************)
(* C4: when the attribute-step answer parses to a JSON object, the mapping *)
(* returned is that object with "N/A" added for every expected attribute   *)
(* the object omits; every value the model supplied is left unchanged.     *)
(***************************************************************************)
C4_MissingFilledWithNA ==
  (AttributesAnswered /\ ParsedAnswer.ok /\ ParsedAnswer.v.k = "dict") =>
    /\ HasReturned /\ ~HasRaised
    /\ ResolvedAttributes.k = "dict"
    /\ DOMAIN ResolvedAttributes.d =
         (DOMAIN ParsedAnswer.v.d) \cup AttributeNames(call.level_3.s)
    /\ \A a \in DOMAIN ParsedAnswer.v.d : ResolvedAttributes.d[a] = ParsedAnswer.v.d[a]
    /\ \A a \in AttributeNames(call.level_3.s) \ DOMAIN ParsedAnswer.v.d :
         ResolvedAttributes.d[a] = PyStr(NA)

\* The worked example: attributes m and n, the answer {"m": "a"}.
C4_Witness ==
  /\ AttributesAnswered
  /\ ParsedAnswer.ok /\ ParsedAnswer.v.k = "dict"
  /\ DOMAIN ParsedAnswer.v.d = {<<"m">>}
  /\ AttributeNames(call.level_3.s) = {<<"m">>, <<"n">>}
  /\ HasReturned
  /\ ResolvedAttributes.d[<<"m">>] = PyStr(<<"a">>)
  /\ ResolvedAttributes.d[<<"n">>] = PyStr(NA)

(***************************************************************************)
(* C5: when the attribute-step answer is not JSON, get_attributes does not *)
(* raise and returns a mapping whose keys are exactly the attribute names  *)
(* of the category, each mapped to "N/A".                                  *)
(***************************************************************************)
C5_NonJsonAllNA ==
  (AttributesAnswered /\ ~ParsedAnswer.ok) =>
    /\ HasReturned /\ ~HasRaised
    /\ ResolvedAttributes.k = "dict"
    /\ DOMAIN ResolvedAttributes.d = AttributeNames(call.level_3.s)
    /\ \A a \in DOMAIN ResolvedAttributes.d : ResolvedAttributes.d[a] = PyStr(NA)

C5_Witness ==
  /\ Done("get_attributes")
  /\ AttributesAnswered
  /\ call.response_attributes.segments = <<Prose>>
  /\ HasReturned
  /\ DOMAIN ResolvedAttributes.d = {<<"m">>, <<"n">>}

(***************************************************************************)
(* C6: for every level3 present in the table and every text answered at    *)
(* the attribute step, get_attributes returns a mapping and never raises.  *)
(***************************************************************************)
C6_NeverRaisesOnAnswer ==
  (Done("get_attributes") /\ AttributesAnswered /\ call.level_3.s \in TableLevel3) =>
    /\ ~HasRaised
    /\ HasReturned
    /\ call.returned.k = "dict"

(***************************************************************************)
(* C7: for every answer of the model and every non-empty option list the   *)
(* category resolved is a member of the option list, and                   *)
(* get_level_3_taxonomy returns it without raising.                        *)
(***************************************************************************)
C7_AlwaysAnOption ==
  (Level3Answered /\ call.options # <<>>) =>
    /\ call.level_3.s \in Range(call.options)
    /\ Done("get_level_3_taxonomy") => (~HasRaised /\ call.returned = call.level_3)

\* An answer that is none of the options, not even ignoring case.
C7_Witness ==
  /\ Done("get_level_3_taxonomy")
  /\ FallbackUsed
  /\ call.response_level_3.s # <<>>
  /\ \A i \in 1..Len(call.options) :
       ~EqualsIgnoringCase(call.options[i], call.response_level_3.s)
  /\ call.returned.s \in Range(call.options)

(***************************************************************************)
(* C8: in the fallback, if some option equals the answer ignoring case,    *)
(* an option equal to the answer ignoring case is returned, also when an   *)
(* earlier option matches the answer as a substring only.                  *)
(***************************************************************************)
C8_ExactBeforePartial ==
  (FallbackUsed /\ \E i \in 1..Len(call.options) :
                     EqualsIgnoringCase(call.options[i], call.response_level_3.s)) =>
    /\ call.level_3.s \in Range(call.options)
    /\ EqualsIgnoringCase(call.level_3.s, call.response_level_3.s)

C8_Witness ==
  /\ FallbackUsed
  /\ Len(call.options) >= 2
  /\ SubstringEitherWay(call.options[1], call.response_level_3.s)
  /\ ~EqualsIgnoringCase(call.options[1], call.response_level_3.s)
  /\ EqualsIgnoringCase(call.options[2], call.response_level_3.s)
  /\ call.level_3.s = call.options[2]

(***************************************************************************)
(* C9: in the fallback, when no option equals the answer ignoring case but *)
(* some option contains the answer or is contained in it (ignoring case),  *)
(* the first such option in list order is returned.                        *)
(***************************************************************************)
C9_FirstPartialMatch ==
  (/\ FallbackUsed
   /\ \A i \in 1..Len(call.options) :
        ~EqualsIgnoringCase(call.options[i], call.response_level_3.s)
   /\ \E i \in 1..Len(call.options) :
        SubstringEitherWay(call.options[i], call.response_level_3.s)) =>
    \E i \in 1..Len(call.options) :
      /\ call.level_3.s = call.options[i]
      /\ SubstringEitherWay(call.options[i], call.response_level_3.s)
      /\ \A j \in 1..(i - 1) : ~SubstringEitherWay(call.options[j], call.response_level_3.s)

\* The first option does not match, the second does.
C9_Witness ==
  /\ FallbackUsed
  /\ Len(call.options) >= 2
  /\ \A i \in 1..Len(call.options) :
       ~EqualsIgnoringCase(call.options[i], call.response_level_3.s)
  /\ ~SubstringEitherWay(call.options[1], call.response_level_3.s)
  /\ SubstringEitherWay(call.options[2], call.response_level_3.s)
  /\ call.level_3.s = call.options[2]

RowsOf(level_3) == {i \in 1..Len(taxonomy_df) : taxonomy_df[i].level_3_category = level_3}

ParentsAgree(level_3) ==
  \A i, j \in RowsOf(level_3) :
    /\ taxonomy_df[i].level_1_category = taxonomy_df[j].level_1_category
    /\ taxonomy_df[i].level_2_category = taxonomy_df[j].level_2_category

(***************************************************************************)
(* C11: for every level3 value present in the table,                       *)
(* get_parent_categories returns the (level1, level2) pair of the first    *)
(* row of that value in table order, which is the pair shared by all rows  *)
(* of the value when they agree, also when two or more rows share it.      *)
(***************************************************************************)
C11_ParentsOfCategory ==
  (Done("get_parent_categories") /\ call.level_3.s \in TableLevel3) =>
    /\ HasReturned /\ ~HasRaised
    /\ \E i \in RowsOf(call.level_3.s) :
         /\ \A j \in RowsOf(call.level_3.s) : i <= j
         /\ call.returned.level_1 = taxonomy_df[i].level_1_category
         /\ call.returned.level_2 = taxonomy_df[i].level_2_category
    /\ ParentsAgree(call.level_3.s) =>
         \A j \in RowsOf(call.level_3.s) :
           /\ call.returned.level_1 = taxonomy_df[j].level_1_category
           /\ call.returned.level_2 = taxonomy_df[j].level_2_category

\* Two different rows share the category and agree on its parents.
C11_Witness ==
  /\ Done("get_parent_categories")
  /\ HasReturned
  /\ Cardinality(RowsOf(call.level_3.s)) >= 2
  /\ taxonomy_df[1] # taxonomy_df[2]
  /\ ParentsAgree(call.level_3.s)
  /\ call.returned.level_1 = taxonomy_df[1].level_1_category

\* The category step answered, and the category it resolved has no row, so
\* that the lookup of its parents raises inside the entry point.
ParentLookupFailed ==
  /\ call.op \in {"classify_product", "classify_product_categories_only"}
  /\ call.pc = "done"
  /\ Level3Answered
  /\ call.level_3.s \notin TableLevel3

(***************************************************************************)
(* C12: classify and classifyCategoriesOnly hand a NotFoundError of a      *)
(* child to the caller as a NotFoundError, and wrap every other exception  *)
(* as ClassificationError carrying the original message.                   *)
(***************************************************************************)
C12_NotFoundPropagates ==
  /\ ParentLookupFailed =>
       /\ HasRaised
       /\ ErrorKind(call.raised) = "NotFoundError"
  /\ (/\ call.op \in {"classify_product", "classify_product_categories_only"}
      /\ call.pc = "done"
      /\ HasRaised
      /\ ~ParentLookupFailed) =>
       /\ ErrorKind(call.raised) = "ClassificationError"
       /\ Len(call.raised.msg) >= 2

(***************************************************************************)
(* C13: get_level_3_taxonomy fails, with ClassificationError, when the     *)
(* option list is empty and when the Model Gateway fails, and in no other  *)
(* case; with an empty option list it returns no category.                 *)
(***************************************************************************)
C13_FailsIffEmptyOrGateway ==
  Done("get_level_3_taxonomy") =>
    /\ HasRaised <=> (call.options = <<>> \/ ~Level3Answered)
    /\ call.options = <<>> => ~HasReturned
    /\ HasRaised => ErrorKind(call.raised) \in {"ClassificationError", "GatewayError"}

(***************************************************************************)
(* C14: for a level3 value that has no row in the table,                   *)
(* get_parent_categories and get_attributes each fail with NotFoundError,  *)
(* and get_attributes fails before it issues any generation call.          *)
(***************************************************************************)
C14_AbsentCategoryNotFound ==
  (call.op \in {"get_parent_categories", "get_attributes"}
     /\ call.level_3.s \notin TableLevel3) =>
    /\ call.pc = "done"
    /\ call.api_calls = 0
    /\ call.request = None
    /\ HasRaised /\ ~HasReturned
    /\ call.raised.type = "ValueError"
    /\ ErrorKind(call.raised) = "NotFoundError"

\* get_attributes for a category that is not in a table that has rows.
C14_Witness ==
  /\ Done("get_attributes")
  /\ taxonomy_df # <<>>
  /\ call.level_3.s \notin TableLevel3
  /\ HasRaised
  /\ call.api_calls = 0

\* The option list the code built for an attribute, and whether the stored
\* valid values of the attribute are non-empty (a closed attribute).
OptionsOf(a) == call.attribute_options.options[a]

IsClosed(a) == \E i \in 1..Len(OptionsOf(a)) : OptionsOf(a)[i] # PyStr(<<>>)

(***************************************************************************)
(* C15: for every closed attribute of the resolved category the value      *)
(* returned is one of its enumerated valid values or "N/A", whatever the   *)
(* model answered for it.                                                  *)
(***************************************************************************)
C15_ClosedValuesEnumerated ==
  (AttributesAnswered /\ HasReturned /\ ResolvedAttributes.k = "dict") =>
    \A a \in Range(call.attribute_options.keys) :
      IsClosed(a) =>
        \/ ResolvedAttributes.d[a] = PyStr(NA)
        \/ \E i \in 1..Len(OptionsOf(a)) : OptionsOf(a)[i] = ResolvedAttributes.d[a]

\* The shapes of an attribute-step answer that holds one JSON object: the
\* object with whitespace around it, inside a code fence, with prose around it.
AnswerSegments == call.response_attributes.segments

JsonPositions == {i \in 1..Len(AnswerSegments) : AnswerSegments[i].t = "json"}

HoldsOneObject ==
  /\ Cardinality(JsonPositions) = 1
  /\ \A i \in JsonPositions : AnswerSegments[i].v.k = "dict"

TheObject == AnswerSegments[CHOOSE i \in JsonPositions : TRUE].v

OthersAmong(kinds) ==
  \A i \in (1..Len(AnswerSegments)) \ JsonPositions : AnswerSegments[i].t \in kinds

InWhitespace == HoldsOneObject /\ OthersAmong({"ws"})

InFence ==
  /\ HoldsOneObject
  /\ AnswerSegments[1].t \in {"fence", "fence_json"}
  /\ \A i \in 2..Len(AnswerSegments) : AnswerSegments[i].t \in {"ws", "json", "fence"}
  /\ \E i \in 2..Len(AnswerSegments) :
       /\ AnswerSegments[i].t = "fence"
       /\ \A j \in JsonPositions : j < i

InProse ==
  /\ HoldsOneObject
  /\ OthersAmong({"ws", "prose"})
  /\ \E i \in 1..Len(AnswerSegments) : AnswerSegments[i].t = "prose"

(***************************************************************************)
(* C16: an attribute-step answer that is a JSON object surrounded by       *)
(* whitespace, wrapped in a code fence, or surrounded by prose is resolved *)
(* to the same mapping as the bare JSON object.                            *)
(***************************************************************************)
C16_WrappingIgnored ==
  (AttributesAnswered /\ (InWhitespace \/ InFence \/ InProse)) =>
    /\ HasReturned /\ ~HasRaised
    /\ ResolvedAttributes = parse_attributes(<<Json(TheObject)>>, call.attribute_options.keys)

(***************************************************************************)
(* C17: keys of the parsed JSON object that are not attribute names of the *)
(* category are returned in the result, with their values unchanged.       *)
(***************************************************************************)
C17_ExtraKeysPassThrough ==
  (AttributesAnswered /\ ParsedAnswer.ok /\ ParsedAnswer.v.k = "dict") =>
    \A a \in (DOMAIN ParsedAnswer.v.d) \ AttributeNames(call.level_3.s) :
      /\ HasReturned
      /\ a \in DOMAIN ResolvedAttributes.d
      /\ ResolvedAttributes.d[a] = ParsedAnswer.v.d[a]

\* The answer {"m": "a", "x": "a"} for a category without an attribute x.
C17_Witness ==
  /\ AttributesAnswered
  /\ ParsedAnswer.ok /\ ParsedAnswer.v.k = "dict"
  /\ <<"x">> \in DOMAIN ParsedAnswer.v.d
  /\ <<"x">> \notin AttributeNames(call.level_3.s)
  /\ HasReturned
  /\ ResolvedAttributes.d[<<"x">>] = PyStr(<<"a">>)

(***************************************************************************)
(* C18: within one classify_product invocation the two generation calls    *)
(* are sequential: while the category call is out no attribute call has    *)
(* been issued, and the attribute call is issued only once the category    *)
(* call has returned and the parent lookup has succeeded, with the         *)
(* attribute schema of the category just resolved.                         *)
(***************************************************************************)
C18_CallsSequential ==
  call.op = "classify_product" =>
    /\ call.pc = "api_level_3" =>
         /\ call.api_calls = 1
         /\ call.request.system = "level_3"
         /\ ~Level3Answered
         /\ call.attribute_options = None
    /\ call.api_calls = 2 <=> call.request.system = "attributes"
    /\ call.request.system = "attributes" =>
         /\ Level3Answered
         /\ call.level_3.s \in TableLevel3
         /\ call.parents.k = "tuple"
         /\ Range(call.attribute_options.keys) = AttributeNames(call.level_3.s)
         /\ Len(call.request.lines) = Len(attributes_df(taxonomy_df, call.level_3.s))

\* The attribute call is out for one of two categories with different schemas.
C18_Witness ==
  /\ call.op = "classify_product"
  /\ call.pc = "api_attributes"
  /\ \E other \in TableLevel3 : AttributeNames(other) # AttributeNames(call.level_3.s)
  /\ Range(call.attribute_options.keys) = AttributeNames(call.level_3.s)

(***************************************************************************)
(* C19: once loaded, the taxonomy table is changed by no call, successful  *)
(* or failing: its rows and their order are the same after every step.     *)
(***************************************************************************)
C19_TableNeverMutated == [][taxonomy_df' = taxonomy_df]_vars

\* get_attributes has selected the rows of one category of a table that
\* holds another category too, and has returned.
C19_Witness ==
  /\ Done("get_attributes")
  /\ HasReturned
  /\ Len(taxonomy_df) >= 2
  /\ call.level_3.s \in TableLevel3
  /\ \E other \in TableLevel3 : other # call.level_3.s

(***************************************************************************)
(* C20: under every interleaving of concurrent classify_product            *)
(* invocations on one classifier, each invocation ends with the result or  *)
(* the exception it would end with when run alone with the same gateway    *)
(* responses.                                                              *)
(***************************************************************************)
C20_ConcurrentAsAlone ==
  \A t \in Callers :
    invocations[t].pc = "done" =>
      LET alone == RunAlone(taxonomy_df, invocations[t].product_description,
                            invocations[t].response_level_3,
                            invocations[t].response_attributes)
      IN /\ invocations[t].returned = alone.returned
         /\ invocations[t].raised = alone.raised
         /\ invocations[t].api_calls = alone.api_calls

\* Two callers with different descriptions have returned results for
\* different categories.
C20_Witness ==
  /\ \A t \in {1, 2} : invocations[t].pc = "done" /\ invocations[t].returned # None
  /\ invocations[1].level_3 # invocations[2].level_3
  /\ invocations[1].product_description # invocations[2].product_description

GatewayFailed ==
  /\ Done("classify_product")
  /\ HasRaised
  /\ "API call failed" \in Range(call.raised.msg)

(***************************************************************************)
(* C22: a failed generation call is not retried.  When the category call   *)
(* fails, classify_product raises after exactly 1 generation call and no   *)
(* attribute call is issued; when the attribute call fails it raises after *)
(* exactly 2; in both cases no result is returned.                         *)
(***************************************************************************)
C22_NoRetry ==
  GatewayFailed =>
    /\ ~HasReturned
    /\ ~Level3Answered =>
         /\ call.api_calls = 1
         /\ call.request.system = "level_3"
         /\ call.attribute_options = None
    /\ Level3Answered =>
         /\ call.api_calls = 2
         /\ call.request.system = "attributes"
         /\ ~AttributesAnswered

\* The category call answered and the attribute call failed.
C22_Witness ==
  /\ GatewayFailed
  /\ Level3Answered
  /\ call.api_calls = 2
  /\ call.raised.msg = <<"Classification failed", "API call failed">>

\* The stored valid-values string of an attribute of the category at hand:
\* the string of the last row of attributes_df that names the attribute.
StoredValues(a) ==
  LET adf == attributes_df(taxonomy_df, call.level_3.s)
      last == CHOOSE i \in 1..Len(adf) :
                /\ adf[i].attribute = a
                /\ \A j \in (i + 1)..Len(adf) : adf[j].attribute # a
  IN adf[last].valid_attribute_values

LooksLikeJsonArray(s) == s # <<>> /\ Head(s) = "[" /\ s[Len(s)] = "]"

\* The option list the stated precedence gives for a stored string; the
\* empty sequence stands for "no list".
ListByPrecedence(s) ==
  IF s = <<>> THEN <<>>
  ELSE IF LooksLikeJsonArray(s) /\ json_loads_array(s).ok THEN json_loads_array(s).v
  ELSE IF LooksLikeJsonArray(s) THEN <<PyStr(s)>>
  ELSE [i \in 1..Len(split(s, ";")) |-> PyStr(strip(split(s, ";")[i]))]

(***************************************************************************)
(* C23: the option list of every attribute is parsed from its stored       *)
(* string with the stated precedence: a string that looks like a JSON      *)
(* array is parsed as JSON, a string that fails to parse is one literal    *)
(* value, any other string is split on semicolons and trimmed, and the     *)
(* empty string gives no option list at all.                               *)
(***************************************************************************)
C23_ValidValuesPrecedence ==
  call.attribute_options # None =>
    \A a \in Range(call.attribute_options.keys) :
      OptionsOf(a) = ListByPrecedence(StoredValues(a))

\* The same statement for the non-empty stored strings only.
C23_NonEmptyByPrecedence ==
  call.attribute_options # None =>
    \A a \in Range(call.attribute_options.keys) :
      StoredValues(a) # <<>> => OptionsOf(a) = ListByPrecedence(StoredValues(a))

\* The position of the first row of the table that holds a level 3 value.
FirstRowOf(level_3) == CHOOSE i \in RowsOf(level_3) : \A j \in RowsOf(level_3) : i <= j

IsBlank(s) == \A i \in 1..Len(s) : s[i] = " "

(***************************************************************************)
(* C25: the option list offered to the model holds every non-blank level 3 *)
(* value of the table exactly once, in the order in which the values first *)
(* appear in the table, and holds no blank or whitespace-only value.       *)
(***************************************************************************)
C25_OptionsFirstSeenOrder ==
  call.request # None /\ call.request.system = "level_3" =>
    /\ Range(call.options) = {l \in TableLevel3 : ~IsBlank(l)}
    /\ \A i, j \in 1..Len(call.options) :
         /\ i # j => call.options[i] # call.options[j]
         /\ i < j => FirstRowOf(call.options[i]) < FirstRowOf(call.options[j])
    /\ Len(call.request.lines) = Len(call.options)
    /\ \A i \in 1..Len(call.options) : call.request.lines[i] = <<"-", " ">> \o call.options[i]

\* The table lists "ab" before "a": first-seen order is not sorted order.
C25_Witness ==
  /\ call.pc = "api_level_3"
  /\ call.options = << <<"a", "b">>, <<"a">> >>
  /\ Len(taxonomy_df) = 2

\* The table holds a blank value, which is not offered.
C25_WitnessBlank ==
  /\ call.pc = "api_level_3"
  /\ \E l \in TableLevel3 : IsBlank(l)
  /\ Len(call.options) = 1

RequiredColumns == Range(string_columns)

LoadEnded == loading.pc = "done"

(***************************************************************************)
(* C24: when the source has every required column, load yields a table of  *)
(* the same rows in which every absent value is the empty string, every    *)
(* field is a string and no field is the string 'nan'; when a required     *)
(* column is absent load fails with LoadError and yields no table.         *)
(***************************************************************************)
C24_LoadNormalises ==
  /\ ~LoadEnded => taxonomy_df = None
  /\ (LoadEnded /\ RequiredColumns \subseteq loading.csv_df.columns) =>
       /\ loading.raised = None
       /\ taxonomy_df # None
       /\ taxonomy_df.columns = loading.csv_df.columns
       /\ Len(taxonomy_df.rows) = Len(loading.csv_df.rows)
       /\ \A i \in 1..Len(taxonomy_df.rows) :
            /\ \A c \in taxonomy_df.columns :
                 /\ taxonomy_df.rows[i][c] # NaN
                 /\ loading.csv_df.rows[i][c] = NaN => taxonomy_df.rows[i][c] = PyStr(<<>>)
            /\ \A c \in RequiredColumns :
                 /\ taxonomy_df.rows[i][c].k = "str"
                 /\ taxonomy_df.rows[i][c].s # <<"n", "a", "n">>
                 /\ loading.csv_df.rows[i][c] = PyStr(<<"n", "a", "n">>) =>
                      taxonomy_df.rows[i][c] = PyStr(<<>>)
                 /\ loading.csv_df.rows[i][c].k = "int" =>
                      taxonomy_df.rows[i][c] = PyStr(Decimal(loading.csv_df.rows[i][c].n))
                 /\ (/\ loading.csv_df.rows[i][c].k = "str"
                     /\ loading.csv_df.rows[i][c].s # <<"n", "a", "n">>) =>
                      taxonomy_df.rows[i][c] = loading.csv_df.rows[i][c]
  /\ (LoadEnded /\ ~(RequiredColumns \subseteq loading.csv_df.columns)) =>
       /\ loading.raised # None
       /\ ErrorKind(loading.raised) = "LoadError"
       /\ taxonomy_df = None

\* A source with absent values, a number and a 'nan' string has been loaded.
C24_Witness ==
  /\ LoadEnded
  /\ loading.raised = None
  /\ \E i \in 1..Len(loading.csv_df.rows) : \E c1, c2, c3 \in RequiredColumns :
       /\ loading.csv_df.rows[i][c1] = NaN
       /\ loading.csv_df.rows[i][c2] = PyStr(<<"n", "a", "n">>)
       /\ taxonomy_df.rows[i][c1] = PyStr(<<>>)
       /\ taxonomy_df.rows[i][c2] = PyStr(<<>>)
  /\ \E i \in 1..Len(loading.csv_df.rows) : \E c \in RequiredColumns :
       /\ loading.csv_df.rows[i][c] = PyInt(20)
       /\ taxonomy_df.rows[i][c] = PyStr(<<"2", "0">>)

\* A source without the level 3 column has been refused.
C24_WitnessMissingColumn ==
  /\ LoadEnded
  /\ "level 3 category" \notin loading.csv_df.columns
  /\ loading.csv_df.rows # <<>>
  /\ loading.raised # None
  /\ taxonomy_df = None

Running == {i \in DOMAIN workers : workers[i].pc = "running"}

(***************************************************************************)
(* C26: within one bulk upload at most 5 rows are in process_single_row at *)
(* any time, however many rows the uploaded CSV has.                       *)
(***************************************************************************)
C26_AtMostFiveRunning ==
  /\ Cardinality(Running) <= 5
  /\ Cardinality(Busy) <= 5

\* Five rows of a CSV of more than five are being processed, one waits.
C26_Witness ==
  /\ Len(workers) > 5
  /\ Cardinality(Running) = 5
  /\ \E i \in DOMAIN workers : workers[i].pc = "queued"

Uploading == progress_dict # NoUpload

AllWorkersEnded == Uploading /\ \A i \in DOMAIN workers : Ended(workers[i])

Completed == {i \in DOMAIN workers : workers[i].pc = "done"}

(***************************************************************************)
(* C27: the progress counter current always lies between 0 and total, and  *)
(* once every worker has ended it equals the number of rows whose worker   *)
(* completed without raising, under every interleaving of the workers'     *)
(* unsynchronised read-increment-write.                                    *)
(***************************************************************************)
C27_CounterCountsCompleted ==
  Uploading =>
    /\ 0 <= progress_dict.current
    /\ progress_dict.current <= progress_dict.total
    /\ AllWorkersEnded => progress_dict.current = Cardinality(Completed)

\* What does hold of the counter: it never exceeds the number of completed
\* rows, and the percentage polled lies between 0 and 100.
C27_CounterWithinCompleted ==
  Uploading =>
    /\ 0 <= progress_dict.current
    /\ progress_dict.current <= Cardinality(Completed)
    /\ Cardinality(Completed) <= progress_dict.total
    /\ update_progress_bar.value \in 0..100

\* Every slot holds nothing before its own worker has stored its result and
\* when that worker raised, and the result of its own row afterwards; a CSV
\* that was built lists the rows in input order.
SlotsHoldOwnRow ==
  Uploading =>
    /\ Len(progress_dict.results) = progress_dict.total
    /\ \A i \in DOMAIN workers :
         /\ workers[i].pc \in {"new", "queued", "running", "raised"} =>
              progress_dict.results[i] = None
         /\ workers[i].pc \in {"increment", "done"} =>
              progress_dict.results[i] = process_single_row(i)
    /\ progress_dict.csv # None =>
         /\ Len(progress_dict.csv.items) = progress_dict.total
         /\ \A i \in DOMAIN workers : progress_dict.csv.items[i] = process_single_row(i)

\* A step changes slot i only when it is worker i storing its result into
\* the slot that is still None.
SlotWrittenByOwnerOnce ==
  Uploading =>
    \A i \in DOMAIN workers :
      progress_dict'.results[i] # progress_dict.results[i] =>
        /\ progress_dict.results[i] = None
        /\ workers[i].pc = "running"
        /\ workers'[i].pc = "increment"

(***************************************************************************)
(* C29: result slot i is written only by the worker of input row i and at  *)
(* most once, so in whatever order the workers complete the results list,  *)
(* and the CSV built from it, hold the result of row i at position i; the  *)
(* slot of a worker that raised stays None.                                *)
(***************************************************************************)
C29_SlotOwnedByWorker == []SlotsHoldOwnRow /\ [][SlotWrittenByOwnerOnce]_vars

\* Row 3 completed before row 2, and the worker of row 1 raised.
C29_Witness ==
  /\ Uploading
  /\ Len(workers) >= 3
  /\ workers[1].pc = "raised"
  /\ workers[2].pc = "running"
  /\ workers[3].pc = "done"
  /\ progress_dict.results[1] = None
  /\ progress_dict.results[2] = None
  /\ progress_dict.results[3] = process_single_row(3)

\* A CSV of several rows has been built.
C29_WitnessCsv ==
  /\ Uploading
  /\ progress_dict.csv # None
  /\ Len(progress_dict.csv.items) >= 3

Finished == Uploading /\ progress_dict.finished

(***************************************************************************)
(* C28: every bulk upload that was started eventually has finished = True, *)
(* given that the processing of each row ends: when all rows succeed, when *)
(* a row worker raises and when building the CSV raises; and finished is   *)
(* True only once every row worker has ended.                              *)
(***************************************************************************)
C28_EventuallyFinished ==
  /\ [](Finished => AllWorkersEnded /\ thread_pc = "ended")
  /\ Uploading ~> Finished

\* An upload in which a row worker raised, so that building the CSV raised,
\* has finished without a CSV.
C28_Witness ==
  /\ Finished
  /\ \E i \in DOMAIN workers : workers[i].pc = "raised"
  /\ \E i \in DOMAIN workers : workers[i].pc = "done"
  /\ progress_dict.csv = None

\* An upload in which every row succeeded has finished with its CSV.
C28_WitnessAllSucceed ==
  /\ Finished
  /\ Len(workers) > max_workers
  /\ \A i \in DOMAIN workers : workers[i].pc = "done"
  /\ progress_dict.csv # None

(***************************************************************************)
(* C30: whenever the attributes page is shown and product_data holds       *)
(* attributes, they were resolved for the level_3_category of the taxonomy *)
(* stored now and for the initial product stored now.                      *)
(***************************************************************************)
C30_AttributesMatchStored ==
  (session_state.page = "attributes" /\ Has("attributes")) =>
    /\ Has("taxonomy")
    /\ Has("initial")
    /\ session_state.product_data["attributes"].level_3 =
         session_state.product_data["taxonomy"].level_3_category
    /\ session_state.product_data["attributes"].product =
         session_state.product_data["initial"]

\* The same for the attributes page reached by "Next: Attributes" alone:
\* the attributes resolved on the page are those of the stored data.
C30_ResolvedForStored ==
  [][attributes_page_processing /\ Has("attributes")' =>
       /\ session_state'.product_data["attributes"].level_3 =
            session_state.product_data["taxonomy"].level_3_category
       /\ session_state'.product_data["attributes"].product =
            session_state.product_data["initial"]]_vars

====
